---- MODULE Spec2Model ----
(***************************************************************************)
(* Video prompt optimizer: the prompt analysis engine (promptAnalyzer.ts)  *)
(* and the scene collection held by the VideoPromptOptimizer component     *)
(* (scene.ts).  Texts are TLA+ strings; the string functions of the        *)
(* JavaScript runtime the code calls (split, trim, includes, toLowerCase,  *)
(* parseInt, Math.round) are written out as operators on them.             *)
(***************************************************************************)
EXTENDS Integers, Sequences, FiniteSets, TLC

(***************************************************************************)
(* JavaScript string primitives                                            *)
(***************************************************************************)
charAt(s, i) == SubSeq(s, i, i)

slice(s, from) == SubSeq(s, from, Len(s))

UpperAlphabet == "ABCDEFGHIJKLMNOPQRSTUVWXYZ"

LowerAlphabet == "abcdefghijklmnopqrstuvwxyz"

\* position of the one-character string c in alphabet, 0 when it is not in it
alphabetIndex(alphabet, c) ==
    IF \E i \in 1..Len(alphabet) : charAt(alphabet, i) = c
    THEN CHOOSE i \in 1..Len(alphabet) : charAt(alphabet, i) = c
    ELSE 0

lowerChar(c) ==
    LET i == alphabetIndex(UpperAlphabet, c)
    IN  IF i = 0 THEN c ELSE charAt(LowerAlphabet, i)

upperChar(c) ==
    LET i == alphabetIndex(LowerAlphabet, c)
    IN  IF i = 0 THEN c ELSE charAt(UpperAlphabet, i)

\* the characters lo..hi of s, each mapped; the range is halved at every step
\* so that long texts do not nest deeply
RECURSIVE mapChars(_, _, _, _)
mapChars(s, lo, hi, toUpper) ==
    IF lo > hi THEN ""
    ELSE IF lo = hi
         THEN (IF toUpper THEN upperChar(charAt(s, lo)) ELSE lowerChar(charAt(s, lo)))
         ELSE LET mid == (lo + hi) \div 2
              IN  mapChars(s, lo, mid, toUpper) \o mapChars(s, mid + 1, hi, toUpper)

toLowerCase(s) == mapChars(s, 1, Len(s), FALSE)

toUpperCase(s) == mapChars(s, 1, Len(s), TRUE)

\* String.prototype.includes
includes(s, k) ==
    \E i \in 1..(Len(s) - Len(k) + 1) : SubSeq(s, i, i + Len(k) - 1) = k

\* Array.prototype.includes on a list of strings
listIncludes(list, w) == \E i \in 1..Len(list) : list[i] = w

\* list.some(k => s.includes(k))
someIncluded(list, s) == \E i \in 1..Len(list) : includes(s, list[i])

\* the characters the regular expression class \s and trim() treat as white space
WhiteSpace == {" ", "\n", "\t", "\r"}

\* the pieces of the characters lo..hi of s between separator characters, every
\* separator separating; the range is halved at every step, and the last piece of
\* the left half continues in the first piece of the right half
RECURSIVE splitRange(_, _, _, _)
splitRange(s, seps, lo, hi) ==
    IF lo > hi THEN <<"">>
    ELSE IF lo = hi
         THEN (IF charAt(s, lo) \in seps THEN <<"", "">> ELSE <<charAt(s, lo)>>)
         ELSE LET mid   == (lo + hi) \div 2
                  left  == splitRange(s, seps, lo, mid)
                  right == splitRange(s, seps, mid + 1, hi)
              IN  SubSeq(left, 1, Len(left) - 1)
                  \o <<left[Len(left)] \o right[1]>>
                  \o Tail(right)

\* s.split(c) for a one-character separator: every occurrence separates
splitChar(s, c) == splitRange(s, {c}, 1, Len(s))

isNonEmpty(piece) == piece # ""

\* s.split(/[seps]+/): the pieces between maximal runs of separator characters.
\* A piece between two adjacent separators lies inside a run and is no piece;
\* a leading or trailing run leaves an empty first or last piece, "" gives [""]
splitRuns(s, seps) ==
    LET pieces == splitRange(s, seps, 1, Len(s))
        n      == Len(pieces)
    IN  IF n = 1 THEN pieces
        ELSE <<pieces[1]>> \o SelectSeq(SubSeq(pieces, 2, n - 1), isNonEmpty)
             \o <<pieces[n]>>

RECURSIVE trimStart(_)
trimStart(s) ==
    IF Len(s) > 0 /\ charAt(s, 1) \in WhiteSpace THEN trimStart(slice(s, 2)) ELSE s

RECURSIVE trimEnd(_)
trimEnd(s) ==
    IF Len(s) > 0 /\ charAt(s, Len(s)) \in WhiteSpace
    THEN trimEnd(SubSeq(s, 1, Len(s) - 1))
    ELSE s

trim(s) == trimEnd(trimStart(s))

RECURSIVE sumRange(_, _, _)
sumRange(list, lo, hi) ==
    IF lo > hi THEN 0
    ELSE IF lo = hi THEN list[lo]
         ELSE LET mid == (lo + hi) \div 2
              IN  sumRange(list, lo, mid) + sumRange(list, mid + 1, hi)

sumList(list) == sumRange(list, 1, Len(list))

\* list.join(sep) for the elements lo..hi of a list of strings
RECURSIVE joinRange(_, _, _, _)
joinRange(list, sep, lo, hi) ==
    IF lo > hi THEN ""
    ELSE IF lo = hi THEN list[lo]
    ELSE LET mid == (lo + hi) \div 2
         IN  joinRange(list, sep, lo, mid) \o sep \o joinRange(list, sep, mid + 1, hi)

join(list, sep) == joinRange(list, sep, 1, Len(list))

\* Math.round of the rational num/den (den > 0): the nearest integer, a half
\* rounding towards plus infinity
MathRound(num, den) == (2 * num + den) \div (2 * den)

MathMin(a, b) == IF a < b THEN a ELSE b

MathMax(a, b) == IF a > b THEN a ELSE b

(***************************************************************************)
(* promptAnalyzer.ts: text feature extractors                              *)
(***************************************************************************)
TOPIC_KEYWORDS ==
    [educational |-> <<"learn", "explain", "understand", "concept", "theory",
                       "principle", "definition">>,
     visual      |-> <<"visualize", "illustrate", "display", "show",
                       "demonstrate", "present", "reveal">>,
     motion      |-> <<"move", "transition", "flow", "slide", "zoom", "pan",
                       "rotate", "animate">>,
     engagement  |-> <<"interactive", "engaging", "compelling", "captivating",
                       "dynamic", "vibrant">>]

MOTION_VERBS ==
    <<"moves", "flows", "transitions", "slides", "zooms", "pans", "rotates",
      "animates", "shifts", "transforms", "morphs", "evolves", "emerges",
      "unfolds", "reveals">>

positiveWords ==
    <<"good", "great", "excellent", "amazing", "wonderful", "perfect", "best",
      "beautiful", "clear", "easy">>

negativeWords ==
    <<"bad", "terrible", "awful", "horrible", "wrong", "difficult", "hard",
      "confusing", "unclear">>

wordSentiment(word) ==
    (IF listIncludes(positiveWords, word) THEN 1 ELSE 0)
    - (IF listIncludes(negativeWords, word) THEN 1 ELSE 0)

calculateSentiment(text) ==
    LET words == splitRuns(toLowerCase(text), WhiteSpace)
    IN  sumList([i \in 1..Len(words) |-> wordSentiment(words[i])])

Vowels == {"a", "e", "i", "o", "u", "A", "E", "I", "O", "U"}

\* word.replace(/[^aeiouAEIOU]/g, '').length
vowelCount(word) == Cardinality({i \in 1..Len(word) : charAt(word, i) \in Vowels})

wordSyllables(word) == MathMax(1, vowelCount(word))

nonBlank(s) == Len(trim(s)) > 0

nonEmpty(w) == Len(w) > 0

\* The readability is a real number; the model keeps it exact, as the
\* fraction num/den with den > 0 (all three terms over 1000 * sentences * words).
calculateFleschKincaid(text) ==
    LET sentences == Len(SelectSeq(splitRuns(text, {".", "!", "?"}), nonBlank))
        words     == Len(SelectSeq(splitRuns(text, WhiteSpace), nonEmpty))
        pieces    == splitRuns(text, WhiteSpace)
        syllables == sumList([i \in 1..Len(pieces) |-> wordSyllables(pieces[i])])
    IN  IF sentences = 0 \/ words = 0
        THEN [num |-> 0, den |-> 1]
        ELSE [num |-> 206835 * sentences * words
                      - 1015 * words * words
                      - 84600 * syllables * sentences,
              den |-> 1000 * sentences * words]

properNounStopWords == <<"The", "A", "An", "This", "That">>

isProperNoun(word) ==
    /\ Len(word) > 2
    /\ charAt(word, 1) = toUpperCase(charAt(word, 1))
    /\ slice(word, 2) = toLowerCase(slice(word, 2))
    /\ ~listIncludes(properNounStopWords, word)

detectProperNouns(text) == SelectSeq(splitRuns(text, WhiteSpace), isProperNoun)

\* the number of places at which k occurs in text
occurrences(text, k) ==
    Cardinality({i \in 1..(Len(text) - Len(k) + 1) : SubSeq(text, i, i + Len(k) - 1) = k})

\* mutant of keywordHits: every occurrence of a keyword counts
keywordHitsPerOccurrence(keywords, lowerText) ==
    sumList([i \in 1..Len(keywords) |-> occurrences(lowerText, keywords[i])])

\* how many entries of the keyword list occur in lowerText
keywordHits(keywords, lowerText) ==
    Cardinality({i \in 1..Len(keywords) : includes(lowerText, keywords[i])})

scoreTopicRelevance(text) ==
    LET lowerText == toLowerCase(text)
        score == 10 * ( keywordHits(TOPIC_KEYWORDS.educational, lowerText)
                      + keywordHits(TOPIC_KEYWORDS.visual, lowerText)
                      + keywordHits(TOPIC_KEYWORDS.motion, lowerText)
                      + keywordHits(TOPIC_KEYWORDS.engagement, lowerText))
    IN  MathMin(100, score)

(***************************************************************************)
(* promptAnalyzer.ts: the dimension scorers.  The running score is a real  *)
(* number once the topic term is added; it is kept exact, as a fraction    *)
(* over the denominator of the topic weight.                               *)
(***************************************************************************)
\* score += topicScore * 0.2 and score += educationalScore * 0.15
imageTopicWeight == [num |-> 1, den |-> 5]

\* mutant of voiceTopicWeight: the voice scorer weighs the topic like the
\* image scorer
voiceTopicWeightAsImage == [num |-> 1, den |-> 5]

voiceTopicWeight == [num |-> 3, den |-> 20]

\* mutant of clampScore: the score is rounded and never clamped
clampScoreUnclamped(num, den) == MathRound(num, den)

\* Math.max(0, Math.min(100, Math.round(score))) of the score num/den
clampScore(num, den) == MathMax(0, MathMin(100, MathRound(num, den)))

\* one rule of a scorer: what it adds to the score and what it reports
Rule(points, issue, suggestion) ==
    [points |-> points, issues |-> issue, suggestions |-> suggestion]

rulePoints(r) == r.points

ruleIssue(r) == r.issues

ruleSuggestion(r) == r.suggestions

\* the AnalysisBlock of a scorer: base score, the rules in code order, and the
\* topic term weight * topic
Block(base, rules, topic, weight) ==
    LET points      == [i \in 1..Len(rules) |-> rulePoints(rules[i])]
        issues      == [i \in 1..Len(rules) |-> ruleIssue(rules[i])]
        suggestions == [i \in 1..Len(rules) |-> ruleSuggestion(rules[i])]
    IN  [score       |-> clampScore(weight.den * (base + sumList(points))
                                    + weight.num * topic, weight.den),
         issues      |-> SelectSeq(issues, nonEmpty),
         suggestions |-> SelectSeq(suggestions, nonEmpty)]

visualKeywords ==
    <<"color", "style", "lighting", "composition", "detailed", "realistic", "artistic">>

analyzeImage(prompt) ==
    LET lengthRule ==
            IF Len(prompt) < 50
            THEN Rule(-20, "Image prompt too short",
                      "Add more visual descriptors and details")
            ELSE IF Len(prompt) > 200 THEN Rule(10, "", "") ELSE Rule(0, "", "")
        visualRule ==
            IF ~someIncluded(visualKeywords, toLowerCase(prompt))
            THEN Rule(-15, "Missing visual style descriptors",
                      "Specify art style, colors, or lighting")
            ELSE Rule(15, "", "")
        properNounRule ==
            IF Len(detectProperNouns(prompt)) > 3
            THEN Rule(-10, "Many proper nouns may need pronunciation guide",
                      "Consider simplifying technical terms")
            ELSE Rule(0, "", "")
    IN  Block(50, <<lengthRule, visualRule, properNounRule>>,
              scoreTopicRelevance(prompt), imageTopicWeight)

durationKeywords == <<"second", "duration", "time", "quick", "slow", "smooth">>

\* mutant of analyzeVideo: a prompt without an engagement keyword is penalised
\* and reported
analyzeVideoEngagementRequired(prompt) ==
    LET motionRule ==
            IF ~someIncluded(MOTION_VERBS, toLowerCase(prompt))
            THEN Rule(-25, "No motion described",
                      "Add motion verbs like \"flows\", \"transitions\", \"zooms\"")
            ELSE Rule(20, "", "")
        durationRule ==
            IF ~someIncluded(durationKeywords, toLowerCase(prompt))
            THEN Rule(-15, "Duration unclear",
                      "Specify timing like \"smooth 4-second transition\"")
            ELSE Rule(15, "", "")
        engagementRule ==
            IF someIncluded(TOPIC_KEYWORDS.engagement, toLowerCase(prompt))
            THEN Rule(10, "", "")
            ELSE Rule(-10, "Not engaging", "Add engaging language")
        lengthRule ==
            IF Len(prompt) < 30
            THEN Rule(-15, "Video description too brief",
                      "Describe the visual sequence in more detail")
            ELSE Rule(0, "", "")
    IN  Block(50, <<motionRule, durationRule, engagementRule, lengthRule>>,
              0, [num |-> 0, den |-> 1])

analyzeVideo(prompt) ==
    LET motionRule ==
            IF ~someIncluded(MOTION_VERBS, toLowerCase(prompt))
            THEN Rule(-25, "No motion described",
                      "Add motion verbs like \"flows\", \"transitions\", \"zooms\"")
            ELSE Rule(20, "", "")
        durationRule ==
            IF ~someIncluded(durationKeywords, toLowerCase(prompt))
            THEN Rule(-15, "Duration unclear",
                      "Specify timing like \"smooth 4-second transition\"")
            ELSE Rule(15, "", "")
        engagementRule ==
            IF someIncluded(TOPIC_KEYWORDS.engagement, toLowerCase(prompt))
            THEN Rule(10, "", "")
            ELSE Rule(0, "", "")
        lengthRule ==
            IF Len(prompt) < 30
            THEN Rule(-15, "Video description too brief",
                      "Describe the visual sequence in more detail")
            ELSE Rule(0, "", "")
    IN  Block(50, <<motionRule, durationRule, engagementRule, lengthRule>>,
              0, [num |-> 0, den |-> 1])

analyzeVoice(script) ==
    LET lengthRule ==
            IF Len(script) < 50
            THEN Rule(-25, "Narration too short",
                      "Expand explanation for better understanding")
            ELSE IF Len(script) > 500
                 THEN Rule(-10, "Narration might be too long for video segment",
                           "Consider breaking into shorter segments")
                 ELSE Rule(15, "", "")
        readability == calculateFleschKincaid(script)
        readabilityRule ==
            IF readability.num < 60 * readability.den
            THEN Rule(-20, "Complex language detected",
                      "Simplify vocabulary and sentence structure")
            ELSE IF readability.num > 80 * readability.den
                 THEN Rule(15, "", "")
                 ELSE Rule(0, "", "")
        sentiment == calculateSentiment(script)
        sentimentRule ==
            IF sentiment < -2
            THEN Rule(-15, "Negative tone detected",
                      "Use more positive, encouraging language")
            ELSE IF sentiment > 2 THEN Rule(10, "", "") ELSE Rule(0, "", "")
        properNounRule ==
            IF Len(detectProperNouns(script)) > 5
            THEN Rule(-10, "Many technical terms may need pronunciation guide",
                      "Add phonetic spelling for complex terms")
            ELSE Rule(0, "", "")
    IN  Block(50, <<lengthRule, readabilityRule, sentimentRule, properNounRule>>,
              scoreTopicRelevance(script), voiceTopicWeight)

(***************************************************************************)
(* promptAnalyzer.ts: the aggregator                                       *)
(***************************************************************************)
\* mutant of overallScoreOf: Math.floor in place of Math.round
overallScoreOfFloor(imageScore, videoScore, voiceScore) ==
    (imageScore + videoScore + voiceScore) \div 3

overallScoreOf(imageScore, videoScore, voiceScore) ==
    MathRound(imageScore + videoScore + voiceScore, 3)

\* mutant of readinessOf: the top boundary is exclusive
readinessOfStrict(overallScore) ==
    IF overallScore > 80 THEN "Production Ready"
    ELSE IF overallScore >= 60 THEN "Good"
    ELSE IF overallScore >= 40 THEN "Needs Work"
    ELSE "Poor"

readinessOf(overallScore) ==
    IF overallScore >= 80 THEN "Production Ready"
    ELSE IF overallScore >= 60 THEN "Good"
    ELSE IF overallScore >= 40 THEN "Needs Work"
    ELSE "Poor"

\* mutant of analyzePrompt: empty inputs are answered without scoring
analyzePromptShortCircuit(imagePrompt, script) ==
    LET unscored == [score |-> 0, issues |-> <<>>, suggestions |-> <<>>]
        imageAnalysis == IF imagePrompt = "" THEN unscored ELSE analyzeImage(imagePrompt)
        videoAnalysis == IF imagePrompt = "" THEN unscored ELSE analyzeVideo(imagePrompt)
        voiceAnalysis == IF script = "" THEN unscored ELSE analyzeVoice(script)
        overallScore  == overallScoreOf(imageAnalysis.score, videoAnalysis.score,
                                        voiceAnalysis.score)
    IN  [image   |-> imageAnalysis,
         video   |-> videoAnalysis,
         voice   |-> voiceAnalysis,
         overall |-> [score |-> overallScore, readiness |-> readinessOf(overallScore)]]

analyzePrompt(imagePrompt, script) ==
    LET imageAnalysis == analyzeImage(imagePrompt)
        videoAnalysis == analyzeVideo(imagePrompt)
        voiceAnalysis == analyzeVoice(script)
        overallScore  == overallScoreOf(imageAnalysis.score, videoAnalysis.score,
                                        voiceAnalysis.score)
    IN  [image   |-> imageAnalysis,
         video   |-> videoAnalysis,
         voice   |-> voiceAnalysis,
         overall |-> [score |-> overallScore, readiness |-> readinessOf(overallScore)]]

(***************************************************************************)
(* scene.ts: the state of the VideoPromptOptimizer component               *)
(***************************************************************************)
VARIABLES
    scenes,            \* useState<Scene[]>: the scene collection
    history,           \* useState<Scene[][]>: the undo snapshots
    historyIndex,      \* useState: 0-based index into history, -1 before mount
    isAnalyzing,       \* useState: an analyzeAllScenes call is waiting
    pendingAnalyses,   \* analyzeAllScenes calls suspended at their await: the
                       \* clock readings at which their timers are due
    keyboardSawContent,\* the keydown handler's closure: its scenes had text
    now,               \* the reading Date.now() gives
    toast,             \* the last toast shown
    call,              \* harness: the arguments of a pure function under check
    ret                \* harness: what it returned, <<>> before the call

appVars == <<scenes, history, historyIndex, isAnalyzing, pendingAnalyses,
             keyboardSawContent, now, toast>>

harnessVars == <<call, ret>>

vars == <<scenes, history, historyIndex, isAnalyzing, pendingAnalyses,
          keyboardSawContent, now, toast, call, ret>>

\* bounds of the model
MaxScenes == 3

MaxHistoryLen == 2

MaxPending == 1

MaxTicks == 1

MaxWaits == 4

\* the clock reading at mount (any reading far from the initial id '1')
ClockStart == 1000

\* the delay of the save timer and of the analysis timer, in milliseconds
saveDelay == 500

analysisDelay == 1500

\* The model bounds the clock: at most MaxWaits save delays pass in a run, and
\* between the long waits at most MaxTicks single milliseconds.
waitsElapsed == (now - ClockStart) \div saveDelay

ticksSinceWait == (now - ClockStart) % saveDelay

clockAllows(delay) == waitsElapsed * saveDelay + delay <= MaxWaits * saveDelay

\* an optional value (analysis?: PromptAnalysis, getItem's string | null):
\* the empty tuple when absent, a one-element tuple when present
Absent == <<>>

Present(v) == <<v>>

isPresent(opt) == opt # <<>>

valueOf(opt) == opt[1]

Scene(id, order, imagePrompt, narrationScript, analysis) ==
    [id |-> id, scene_order |-> order, image_prompt |-> imagePrompt,
     narration_script |-> narrationScript, analysis |-> analysis]

initialScenes == <<Scene("1", 1, "", "", Absent)>>

Toast(title, variant) == [title |-> title, variant |-> variant]

NoToast == Toast("", "")

\* JSON.parse(JSON.stringify(list)): every scene rebuilt from its serialised
\* fields; an undefined analysis is dropped by stringify and missing after parse
jsonCopyScene(s) ==
    Scene(s.id, s.scene_order, s.image_prompt, s.narration_script,
          IF isPresent(s.analysis) THEN Present(valueOf(s.analysis)) ELSE Absent)

jsonCopy(list) == [i \in 1..Len(list) |-> jsonCopyScene(list[i])]

hasContent(s) == s.image_prompt # "" \/ s.narration_script # ""

\* scenes.every(s => !s.image_prompt && !s.narration_script)
everySceneEmpty(list) == \A i \in 1..Len(list) : ~hasContent(list[i])

(***************************************************************************)
(* scene.ts: history management                                            *)
(***************************************************************************)
maxHistorySize == 50

\* list.slice(-n)
lastN(list, n) == SubSeq(list, MathMax(1, Len(list) - n + 1), Len(list))

\* the history and index saveToHistory(newScenes) leaves
savedHistory(newScenes) ==
    lastN(Append(SubSeq(history, 1, historyIndex + 1), jsonCopy(newScenes)),
          maxHistorySize)

\* mutant of savedHistoryIndex: the index is not capped
savedHistoryIndexUncapped == historyIndex + 1

savedHistoryIndex == MathMin(historyIndex + 1, maxHistorySize - 1)

saveToHistory(newScenes) ==
    /\ history' = savedHistory(newScenes)
    /\ historyIndex' = savedHistoryIndex

\* the model lets the history grow to MaxHistoryLen snapshots
historyHasRoom == historyIndex + 2 <= MaxHistoryLen

undo ==
    /\ historyIndex > 0
    /\ scenes' = jsonCopy(history[historyIndex])
    /\ historyIndex' = historyIndex - 1
    /\ toast' = Toast("Undone", "")
    /\ keyboardSawContent' = ~everySceneEmpty(scenes')
    /\ UNCHANGED <<history, isAnalyzing, pendingAnalyses, now>>
    /\ UNCHANGED harnessVars

redo ==
    /\ historyIndex < Len(history) - 1
    /\ scenes' = jsonCopy(history[historyIndex + 2])
    /\ historyIndex' = historyIndex + 1
    /\ toast' = Toast("Redone", "")
    /\ keyboardSawContent' = ~everySceneEmpty(scenes')
    /\ UNCHANGED <<history, isAnalyzing, pendingAnalyses, now>>
    /\ UNCHANGED harnessVars

(***************************************************************************)
(* scene.ts: scene operations                                              *)
(***************************************************************************)
\* the texts typed into the scenes of the model
SceneImagePrompts == {"", "A detailed cell"}

SceneScripts == {"", "learn"}

TextFields == {"image_prompt", "narration_script"}

fieldTexts(field) == IF field = "image_prompt" THEN SceneImagePrompts ELSE SceneScripts

\* mutant of updatedScene: the text is replaced and the analysis is kept
updatedSceneKeepingAnalysis(scene, sceneId, field, value) ==
    IF scene.id = sceneId THEN [scene EXCEPT ![field] = value] ELSE scene

\* prev.map(scene => scene.id === sceneId
\*                   ? { ...scene, [field]: value, analysis: undefined } : scene)
updatedScene(scene, sceneId, field, value) ==
    IF scene.id = sceneId
    THEN [scene EXCEPT ![field] = value, !.analysis = Absent]
    ELSE scene

updatedScenes(prev, sceneId, field, value) ==
    [i \in 1..Len(prev) |-> updatedScene(prev[i], sceneId, field, value)]

updateScene(sceneId, field, value) ==
    /\ scenes' = updatedScenes(scenes, sceneId, field, value)
    /\ saveToHistory(scenes')
    /\ keyboardSawContent' = ~everySceneEmpty(scenes')
    /\ UNCHANGED <<isAnalyzing, pendingAnalyses, now, toast>>
    /\ UNCHANGED harnessVars

\* the change event of the text area of the scene shown at position k
editSceneAt(k, field, value) ==
    /\ k \in 1..Len(scenes)
    /\ value # scenes[k][field]
    /\ historyHasRoom
    /\ updateScene(scenes[k].id, field, value)

\* Date.now().toString()
clockId(offset) == ToString(now + offset)

addedScene == Scene(clockId(0), Len(scenes) + 1, "", "", Absent)

addNewScene ==
    /\ Len(scenes) < MaxScenes
    /\ historyHasRoom
    /\ scenes' = Append(scenes, addedScene)
    /\ saveToHistory(scenes')
    /\ toast' = Toast("Scene Added", "")
    /\ keyboardSawContent' = ~everySceneEmpty(scenes')
    /\ UNCHANGED <<isAnalyzing, pendingAnalyses, now>>
    /\ UNCHANGED harnessVars

\* mutant of removeRefused: the guard is off by one
removeRefusedOffByOne(list) == Len(list) < 1

\* if (scenes.length <= 1) { toast(...); return; }
removeRefused(list) == Len(list) <= 1

\* prev.filter(s => s.id !== sceneId).map((scene, index) =>
\*     ({ ...scene, scene_order: index + 1 }))
scenesWithout(prev, sceneId) ==
    LET keep(s) == s.id # sceneId
        filtered == SelectSeq(prev, keep)
    IN  [i \in 1..Len(filtered) |-> [filtered[i] EXCEPT !.scene_order = i]]

removeScene(sceneId) ==
    IF removeRefused(scenes)
    THEN /\ toast' = Toast("Cannot Remove", "destructive")
         /\ UNCHANGED <<scenes, history, historyIndex, isAnalyzing, pendingAnalyses,
                        keyboardSawContent, now>>
         /\ UNCHANGED harnessVars
    ELSE /\ historyHasRoom
         /\ scenes' = scenesWithout(scenes, sceneId)
         /\ saveToHistory(scenes')
         /\ toast' = Toast("Scene Removed", "")
         /\ keyboardSawContent' = ~everySceneEmpty(scenes')
         /\ UNCHANGED <<isAnalyzing, pendingAnalyses, now>>
         /\ UNCHANGED harnessVars

\* the remove button of the scene shown at position k
removeSceneAt(k) ==
    /\ k \in 1..Len(scenes)
    /\ removeScene(scenes[k].id)

\* the guard of analyzeAllScenes and what follows it up to the await; allEmpty
\* is what the scenes of the caller's closure give
analyzeAllScenesCalled(allEmpty) ==
    IF allEmpty
    THEN /\ toast' = Toast("No Content", "destructive")
         /\ UNCHANGED <<scenes, history, historyIndex, isAnalyzing, pendingAnalyses,
                        keyboardSawContent, now>>
         /\ UNCHANGED harnessVars
    ELSE /\ Len(pendingAnalyses) < MaxPending
         /\ clockAllows(analysisDelay)
         /\ isAnalyzing' = TRUE
         /\ pendingAnalyses' = Append(pendingAnalyses, now + analysisDelay)
         /\ UNCHANGED <<scenes, history, historyIndex, keyboardSawContent, now, toast>>
         /\ UNCHANGED harnessVars

\* the Analyze All Scenes button (disabled while isAnalyzing): the closure of
\* the current render
analyzeAllClicked ==
    /\ ~isAnalyzing
    /\ analyzeAllScenesCalled(everySceneEmpty(scenes))

\* Ctrl+Enter: the keydown handler registered when undo or redo last changed
analyzeAllKeyed == analyzeAllScenesCalled(~keyboardSawContent)

\* PromptAnalyzer.analyzePrompt on the texts a scene of the model can hold,
\* evaluated once for each pair of texts
sceneAnalyses ==
    [texts \in SceneImagePrompts \X SceneScripts |-> analyzePrompt(texts[1], texts[2])]

analysisOf(imagePrompt, script) ==
    IF <<imagePrompt, script>> \in DOMAIN sceneAnalyses
    THEN sceneAnalyses[<<imagePrompt, script>>]
    ELSE analyzePrompt(imagePrompt, script)

\* mutant of analyzedScene: a scene without text is analysed as well
analyzedSceneAlways(scene) ==
    [scene EXCEPT !.analysis =
         Present(analysisOf(scene.image_prompt, scene.narration_script))]

\* prev.map(scene => scene.image_prompt || scene.narration_script
\*                   ? { ...scene, analysis } : scene)
analyzedScene(scene) ==
    IF hasContent(scene)
    THEN [scene EXCEPT !.analysis =
              Present(analysisOf(scene.image_prompt, scene.narration_script))]
    ELSE scene

\* mutant of analyzedScenes: every analysis is computed from the text of the
\* first scene
analyzedScenesMisaligned(prev) ==
    [i \in 1..Len(prev) |->
        IF hasContent(prev[i])
        THEN [prev[i] EXCEPT !.analysis =
                  Present(analysisOf(prev[1].image_prompt, prev[1].narration_script))]
        ELSE prev[i]]

analyzedScenes(prev) == [i \in 1..Len(prev) |-> analyzedScene(prev[i])]

\* analyzeAllScenes after its await: the timer that is due first has fired,
\* at its due time or, when the clock is past it, now
analyzeAllResumed ==
    /\ pendingAnalyses # <<>>
    /\ now' = MathMax(now, Head(pendingAnalyses))
    /\ pendingAnalyses' = Tail(pendingAnalyses)
    /\ scenes' = analyzedScenes(scenes)
    /\ isAnalyzing' = FALSE
    /\ toast' = Toast("Analysis Complete", "")
    /\ UNCHANGED <<history, historyIndex, keyboardSawContent>>
    /\ UNCHANGED harnessVars

(***************************************************************************)
(* scene.ts: CSV import                                                    *)
(***************************************************************************)
Digits == "0123456789"

isDigit(c) == c # "" /\ includes(Digits, c)

digitValue(c) == alphabetIndex(Digits, c) - 1

\* the value of the longest prefix of s made of decimal digits; <<>> if none
RECURSIVE digitsPrefix(_, _, _)
digitsPrefix(s, i, acc) ==
    IF i <= Len(s) /\ isDigit(charAt(s, i))
    THEN digitsPrefix(s, i + 1, Present(10 * (IF isPresent(acc) THEN valueOf(acc) ELSE 0)
                                        + digitValue(charAt(s, i))))
    ELSE acc

\* parseInt(s) on text without a 0x prefix: white space, an optional sign, then
\* decimal digits up to the first other character; Absent stands for NaN
parseInt(s) ==
    LET t        == trimStart(s)
        negative == Len(t) > 0 /\ charAt(t, 1) = "-"
        signed   == Len(t) > 0 /\ charAt(t, 1) \in {"-", "+"}
        digits   == digitsPrefix(IF signed THEN slice(t, 2) ELSE t, 1, Absent)
    IN  IF ~isPresent(digits) THEN Absent
        ELSE Present(IF negative THEN 0 - valueOf(digits) ELSE valueOf(digits))

\* v.replace(/^"|"$/g, ''): a leading quote and a trailing quote are removed
stripQuotes(v) ==
    LET v1 == IF Len(v) > 0 /\ charAt(v, 1) = "\"" THEN slice(v, 2) ELSE v
    IN  IF Len(v1) > 0 /\ charAt(v1, Len(v1)) = "\"" THEN SubSeq(v1, 1, Len(v1) - 1) ELSE v1

csvValue(v) == stripQuotes(trim(v))

\* list[i] || '' for a 1-based position i: '' when the element is missing
elementOrEmpty(list, i) == IF i <= Len(list) THEN list[i] ELSE ""

\* the lines the import keeps: csv.split('\n').filter(line => line.trim())
csvLines(csv) == SelectSeq(splitChar(csv, "\n"), nonBlank)

csvHeaders(lines) ==
    LET cells == splitChar(lines[1], ",")
    IN  [i \in 1..Len(cells) |-> trim(cells[i])]

\* the import throws: lines[0] is undefined for a file without a line, or one
\* of the three headers is missing
\* mutant of importThrows: the required headers are not checked
importThrowsOnlyWhenEmpty(csv) == Len(csvLines(csv)) = 0

importThrows(csv) ==
    LET lines == csvLines(csv)
    IN  \/ Len(lines) = 0
        \/ ~listIncludes(csvHeaders(lines), "scene_order")
        \/ ~listIncludes(csvHeaders(lines), "image_prompt")
        \/ ~listIncludes(csvHeaders(lines), "narration_script")

\* the fields of the scene built from data line i (lines[i] of the code, the
\* header being lines[0]): scene_order, image_prompt, narration_script
importedFields(line, i) ==
    LET cells  == splitChar(line, ",")
        values == [c \in 1..Len(cells) |-> csvValue(cells[c])]
        order  == parseInt(elementOrEmpty(values, 1))
    IN  [scene_order      |-> IF isPresent(order) /\ valueOf(order) # 0
                              THEN valueOf(order) ELSE i,
         image_prompt     |-> elementOrEmpty(values, 2),
         narration_script |-> elementOrEmpty(values, 3)]

\* what the import reads from the text of a file: whether it throws, and the
\* fields of the scene of every data line
parsedCsv(csv) ==
    LET lines == csvLines(csv)
    IN  [throws |-> importThrows(csv),
         rows   |-> [i \in 1..(Len(lines) - 1) |-> importedFields(lines[i + 1], i)]]

\* the files offered to the import
CsvHeader == "scene_order,image_prompt,narration_script"

CsvFiles ==
    { "",
      "order,prompt\n1,A detailed cell,learn",
      CsvHeader \o "\n",
      CsvHeader \o "\n5,\"A detailed cell\",\"learn\"\n\n2,,learn\n" }

\* the files of the model, each read once
parsedFiles == [csv \in CsvFiles |-> parsedCsv(csv)]

readCsv(csv) == IF csv \in DOMAIN parsedFiles THEN parsedFiles[csv] ELSE parsedCsv(csv)

\* mutant of importedScenes: the scenes of the file are appended to the
\* collection
importedScenesAppended(csv) ==
    LET rows == readCsv(csv).rows
    IN  scenes \o [i \in 1..Len(rows) |->
                      Scene(clockId(i), rows[i].scene_order, rows[i].image_prompt,
                            rows[i].narration_script, Absent)]

\* newScenes of handleCSVImport; the id of data line i is (Date.now() + i).toString()
importedScenes(csv) ==
    LET rows == readCsv(csv).rows
    IN  [i \in 1..Len(rows) |->
            Scene(clockId(i), rows[i].scene_order, rows[i].image_prompt,
                  rows[i].narration_script, Absent)]

\* reader.onload of handleCSVImport
handleCSVImport(csv) ==
    IF readCsv(csv).throws
    THEN /\ toast' = Toast("Import Failed", "destructive")
         /\ UNCHANGED <<scenes, history, historyIndex, isAnalyzing, pendingAnalyses,
                        keyboardSawContent, now>>
         /\ UNCHANGED harnessVars
    ELSE /\ scenes' = importedScenes(csv)
         /\ toast' = Toast("Import Successful", "")
         /\ UNCHANGED <<history, historyIndex, isAnalyzing, pendingAnalyses,
                        keyboardSawContent, now>>
         /\ UNCHANGED harnessVars

(***************************************************************************)
(* scene.ts: CSV export                                                    *)
(***************************************************************************)
\* text.replace(/"/g, '""') for the characters lo..hi of text
RECURSIVE doubledQuotes(_, _, _)
doubledQuotes(text, lo, hi) ==
    IF lo > hi THEN ""
    ELSE IF lo = hi
         THEN IF charAt(text, lo) = "\"" THEN "\"\"" ELSE charAt(text, lo)
    ELSE LET mid == (lo + hi) \div 2
         IN  doubledQuotes(text, lo, mid) \o doubledQuotes(text, mid + 1, hi)

\* `"${text.replace(/"/g, '""')}"`
quotedField(text) == "\"" \o doubledQuotes(text, 1, Len(text)) \o "\""

\* the line of a scene: scene_order, image_prompt, narration_script joined
\* with ','
exportedLine(scene) ==
    join(<<ToString(scene.scene_order), quotedField(scene.image_prompt),
           quotedField(scene.narration_script)>>, ",")

\* csvContent of exportToCSV
exportedCsv(list) ==
    join(<<join(<<"scene_order", "image_prompt", "narration_script">>, ",")>>
             \o [i \in 1..Len(list) |-> exportedLine(list[i])],
         "\n")

(***************************************************************************)
(* scene.ts: autosave and mount, clock                                       *)
(***************************************************************************)
\* what the save timer (500 ms after the last change of scenes) leaves in
\* localStorage: setItem('videoPromptScenes', JSON.stringify(scenes))
savedItem(list) == Present(jsonCopy(list))

\* what the effect "load saved scenes on mount" leaves in scenes
restoredScenes(saved) ==
    IF isPresent(saved) /\ Len(valueOf(saved)) > 0 THEN valueOf(saved) ELSE initialScenes

\* The page is loaded again once the save timer has fired: fresh component
\* state, then the mount effects.  The effect that initialises the history
\* runs in the closure of the first render, whose scenes are the initial ones.
reloadPage ==
    /\ clockAllows(saveDelay)
    /\ now' = now + saveDelay
    /\ scenes' = restoredScenes(savedItem(scenes))
    /\ history' = <<jsonCopy(initialScenes)>>
    /\ historyIndex' = 0
    /\ isAnalyzing' = FALSE
    /\ pendingAnalyses' = <<>>
    /\ keyboardSawContent' = ~everySceneEmpty(scenes')
    /\ toast' = NoToast
    /\ UNCHANGED harnessVars

\* a millisecond passes
tick ==
    /\ ticksSinceWait < MaxTicks
    /\ now' = now + 1
    /\ UNCHANGED <<scenes, history, historyIndex, isAnalyzing, pendingAnalyses,
                   keyboardSawContent, toast>>
    /\ UNCHANGED harnessVars

(***************************************************************************)
(* scene.ts: the project-level summary                                     *)
(***************************************************************************)
\* mutant of projectReadinessOf: the copy has drifted, Good starts at 65
projectReadinessOfDrifted(averageScore) ==
    IF averageScore >= 80 THEN "Production Ready"
    ELSE IF averageScore >= 65 THEN "Good"
    ELSE IF averageScore >= 40 THEN "Needs Work"
    ELSE "Poor"

projectReadinessOf(averageScore) ==
    IF averageScore >= 80 THEN "Production Ready"
    ELSE IF averageScore >= 60 THEN "Good"
    ELSE IF averageScore >= 40 THEN "Needs Work"
    ELSE "Poor"

sceneOverallScore(s) == valueOf(s.analysis).overall.score

\* mutant of getOverallAnalysis: the total is divided by the number of all
\* scenes, a scene without analysis counting as 0
getOverallAnalysisCountingAll(list) ==
    LET hasAnalysis(s) == isPresent(s.analysis)
        analyzedList == SelectSeq(list, hasAnalysis)
        totalScore   == sumList([i \in 1..Len(analyzedList) |->
                                        sceneOverallScore(analyzedList[i])])
        averageScore == MathRound(totalScore, Len(list))
    IN  IF Len(analyzedList) = 0 THEN Absent
        ELSE Present([score |-> averageScore,
                      readiness |-> projectReadinessOf(averageScore)])

\* null (Absent) when no scene is analysed
getOverallAnalysis(list) ==
    LET hasAnalysis(s) == isPresent(s.analysis)
        analyzedList == SelectSeq(list, hasAnalysis)
        totalScore   == sumList([i \in 1..Len(analyzedList) |->
                                        sceneOverallScore(analyzedList[i])])
        averageScore == MathRound(totalScore, Len(analyzedList))
    IN  IF Len(analyzedList) = 0 THEN Absent
        ELSE Present([score |-> averageScore,
                      readiness |-> projectReadinessOf(averageScore)])

(***************************************************************************)
(* promptOptimizer.ts                                                      *)
(***************************************************************************)
\* optimized.replace(/\.$/, ''): a period at the very end is removed
withoutFinalPeriod(text) ==
    IF Len(text) > 0 /\ charAt(text, Len(text)) = "."
    THEN SubSeq(text, 1, Len(text) - 1)
    ELSE text

visualWords == <<"show", "visualize", "illustrate", "display">>

styleKeywords == <<"detailed", "realistic", "professional", "clean", "modern">>

\* mutant of optimizeImagePrompt: no early return for a blank prompt
optimizeImagePromptUnguarded(prompt) ==
    LET framed == IF ~includes(toLowerCase(prompt), "educational")
                  THEN "Educational content: " \o prompt ELSE prompt
    IN  trim(framed)

optimizeImagePrompt(prompt) ==
    IF trim(prompt) = "" THEN ""
    ELSE LET framed == IF ~includes(toLowerCase(prompt), "educational")
                       THEN "Educational content: " \o prompt ELSE prompt
             visual == IF ~someIncluded(visualWords, toLowerCase(framed))
                       THEN withoutFinalPeriod(framed)
                            \o ". Visualize this with clear, professional imagery."
                       ELSE framed
             styled == IF ~someIncluded(styleKeywords, toLowerCase(visual))
                       THEN visual
                            \o " Use detailed, professional style with clean modern design."
                       ELSE visual
         IN  trim(styled)

motionWords == <<"movement", "animation", "transition", "flow", "dynamic", "moving">>

\* mutant of optimizeVideoPrompt: the clauses are appended without a look at
\* what the text contains
optimizeVideoPromptAlwaysAppending(prompt) ==
    IF trim(prompt) = "" THEN ""
    ELSE trim(prompt \o " Structure as engaging scenes with smooth transitions."
                     \o " Include smooth transitions and dynamic movement."
                     \o " Keep scenes brief for optimal video generation "
                     \o "(4-5 seconds each).")

optimizeVideoPrompt(prompt) ==
    IF trim(prompt) = "" THEN ""
    ELSE LET structured ==
                 IF /\ ~includes(toLowerCase(prompt), "scene")
                    /\ ~includes(toLowerCase(prompt), "sequence")
                 THEN prompt \o " Structure as engaging scenes with smooth transitions."
                 ELSE prompt
             moving ==
                 IF ~someIncluded(motionWords, toLowerCase(structured))
                 THEN structured \o " Include smooth transitions and dynamic movement."
                 ELSE structured
             timed ==
                 IF /\ ~includes(toLowerCase(moving), "brief")
                    /\ ~includes(toLowerCase(moving), "quick")
                    /\ ~includes(toLowerCase(moving), "short")
                 THEN moving \o " Keep scenes brief for optimal video generation "
                             \o "(4-5 seconds each)."
                 ELSE moving
         IN  trim(timed)

educationalTone == <<"learn", "understand", "discover", "explore", "knowledge">>

optimizeVoiceScript(script) ==
    IF trim(script) = "" THEN ""
    ELSE LET narrated ==
                 IF /\ ~includes(toLowerCase(script), "explain")
                    /\ ~includes(toLowerCase(script), "narrat")
                 THEN script \o " Include clear narration that explains key concepts."
                 ELSE script
             toned ==
                 IF ~someIncluded(educationalTone, toLowerCase(narrated))
                 THEN narrated \o " This helps you understand and learn the concept better."
                 ELSE narrated
             expanded ==
                 IF Len(script) < 50
                 THEN toned \o " Provide a clear, detailed explanation of the key ideas "
                            \o "and concepts."
                 ELSE toned
         IN  trim(expanded)

(***************************************************************************)
(* The component                                                           *)
(***************************************************************************)
NoCall == [fn |-> "none"]

Init ==
    /\ scenes = initialScenes
    /\ history = <<jsonCopy(initialScenes)>>
    /\ historyIndex = 0
    /\ isAnalyzing = FALSE
    /\ pendingAnalyses = <<>>
    /\ keyboardSawContent = FALSE
    /\ now = ClockStart
    /\ toast = NoToast
    /\ call = NoCall
    /\ ret = Absent

Next ==
    \/ \E k \in 1..MaxScenes, field \in TextFields :
           \E value \in fieldTexts(field) : editSceneAt(k, field, value)
    \/ addNewScene
    \/ \E k \in 1..MaxScenes : removeSceneAt(k)
    \/ analyzeAllClicked
    \/ analyzeAllKeyed
    \/ analyzeAllResumed
    \/ \E csv \in CsvFiles : handleCSVImport(csv)
    \/ undo
    \/ redo
    \/ reloadPage
    \/ tick

Spec == Init /\ [][Next]_vars

(***************************************************************************)
(* The undo history at its full size: text edits of the first scene are    *)
(* free to fill the history up to maxHistorySize; scenes are added and     *)
(* removed while the history is short.                                     *)
(***************************************************************************)
\* the change event of the image prompt of the first scene
retypeFirstPrompt ==
    \E value \in SceneImagePrompts :
        /\ Len(scenes) >= 1
        /\ value # scenes[1].image_prompt
        /\ updateScene(scenes[1].id, "image_prompt", value)

NextHistory ==
    \/ retypeFirstPrompt
    \/ addNewScene
    \/ \E k \in 1..MaxScenes : removeSceneAt(k)
    \/ undo
    \/ redo

SpecHistory == Init /\ [][NextHistory]_vars

(***************************************************************************)
(* The pure functions, applied to arguments drawn from bounded sets        *)
(***************************************************************************)
ScenarioImagePrompt ==
    "A detailed, realistic illustration of a cell dividing, with vibrant colors "
    \o "and smooth zoom transitions taking 4 seconds."

ScenarioScript ==
    "Today we will learn how cells divide. This process helps you understand "
    \o "the basics of biology."

PlantSentence ==
    "The artistic composition reveals how water flows and moves through the plant. "

WaterSentences == "Water moves up. It flows in. We see it go. "

AnalyzerImagePrompts ==
    { "",
      "A cell",
      "Detailed realistic cell zooms in a smooth 4 second dynamic pan",
      ScenarioImagePrompt,
      "Paris London Berlin Madrid show",
      "learn explain understand concept theory show display reveal zoom pan",
      "learn explain understand concept theory show display reveal zoom pan flow",
      "123 !!! ???",
      PlantSentence \o PlantSentence \o PlantSentence }

AnalyzerScripts ==
    { "",
      "learn",
      "show pan flow learn by. zoom move slide theory my. concept display best "
          \o "best fly. best sky try dry by.",
      "Awful Horrible Terrible Bad Audio Eerie",
      ScenarioScript,
      "  Good great best  ",
      WaterSentences \o WaterSentences \o WaterSentences \o WaterSentences
          \o WaterSentences \o WaterSentences \o WaterSentences \o WaterSentences
          \o WaterSentences \o WaterSentences \o WaterSentences \o WaterSentences,
      "Photosynthesis transforms electromagnetic radiation into carbohydrates." }

\* the largest score a block or an analysis holds
MaxScore == 100

\* the records offered to the import: the text of the scene_order field, and
\* the two text fields
RecordOrders == {"7", "abc", "", "0", "-3"}

RecordImagePrompts == {"", "A cell"}

RecordScripts == {"", "learn"}

MaxRecords == 2

Records ==
    [scene_order : RecordOrders, image_prompt : RecordImagePrompts,
     narration_script : RecordScripts]

RecordLists == UNION {[1..n -> Records] : n \in 1..MaxRecords}

\* a file with the header line and one line for each record, fields unquoted
recordLine(r) == join(<<r.scene_order, r.image_prompt, r.narration_script>>, ",")

recordsFile(records) ==
    join(<<CsvHeader>> \o [i \in 1..Len(records) |-> recordLine(records[i])], "\n")

\* the collections offered to export: texts with a comma, with double quotes
\* and with a line break among them
ExportImagePrompts == {"", "A cell", "red, green", "the \"core\"", "top\nbottom"}

ExportScripts == {"", "learn"}

MaxExported == 2

ExportCollections ==
    UNION {[1..n -> {Scene(id, 1, i, t, Absent) :
                        id \in {"1"}, i \in ExportImagePrompts, t \in ExportScripts}]
              : n \in 0..MaxExported}

\* the scenes of an exported collection are numbered by position and have the
\* position as id
exportCollection(list) ==
    [k \in 1..Len(list) |-> [list[k] EXCEPT !.id = ToString(k), !.scene_order = k]]

ExportImportCalls ==
    {[fn |-> "exportImport", scenes |-> exportCollection(list)] :
        list \in ExportCollections}

\* the texts offered to the optimizers
OptimizerTexts ==
    { "",
      "   ",
      "A cell.",
      "learn",
      "We learn how plants make food from light and water.",
      "We explain and learn how plants make food from light.",
      ScenarioImagePrompt,
      ScenarioScript }

OptimizeCalls == {[fn |-> "optimize", text |-> t] : t \in OptimizerTexts}

\* a script of 53 characters of which the first 40 are blanks
PaddedScript == "                                        explain learn"

\* the texts offered to repeated optimization
RepeatTexts == OptimizerTexts \cup {PaddedScript}

RepeatCalls == {[fn |-> "optimizeRepeated", text |-> t] : t \in RepeatTexts}

\* the texts that are optimized and then scored
RescoreTexts == OptimizerTexts \cup {"Plant Cell division"}

RescoreCalls == {[fn |-> "optimizeThenAnalyze", text |-> t] : t \in RescoreTexts}

ImportCalls == {[fn |-> "import", records |-> rs] : rs \in RecordLists}

AnalyzeCalls ==
    {[fn |-> "analyzePrompt", imagePrompt |-> i, script |-> n] :
        i \in AnalyzerImagePrompts, n \in AnalyzerScripts}

ReadinessCalls == {[fn |-> "readiness", score |-> n] : n \in 0..MaxScore}

InitPure ==
    /\ scenes = initialScenes
    /\ history = <<jsonCopy(initialScenes)>>
    /\ historyIndex = 0
    /\ isAnalyzing = FALSE
    /\ pendingAnalyses = <<>>
    /\ keyboardSawContent = FALSE
    /\ now = ClockStart
    /\ toast = NoToast
    /\ call \in AnalyzeCalls \cup ReadinessCalls \cup ImportCalls \cup ExportImportCalls
                \cup OptimizeCalls \cup RepeatCalls \cup RescoreCalls
    /\ ret = Absent

analyzePromptReturns ==
    /\ call.fn = "analyzePrompt"
    /\ ret = Absent
    /\ ret' = Present(analyzePrompt(call.imagePrompt, call.script))
    /\ UNCHANGED call
    /\ UNCHANGED appVars

\* the readiness label of one scene's analysis and of the project summary,
\* each derived from the same overall score
readinessReturns ==
    /\ call.fn = "readiness"
    /\ ret = Absent
    /\ ret' = Present([scene   |-> readinessOf(call.score),
                       project |-> projectReadinessOf(call.score)])
    /\ UNCHANGED call
    /\ UNCHANGED appVars

\* what handleCSVImport reads from a file of records
importReturns ==
    /\ call.fn = "import"
    /\ ret = Absent
    /\ ret' = Present(parsedCsv(recordsFile(call.records)))
    /\ UNCHANGED call
    /\ UNCHANGED appVars

\* what handleCSVImport reads from the file exportToCSV writes
exportImportReturns ==
    /\ call.fn = "exportImport"
    /\ ret = Absent
    /\ ret' = Present(parsedCsv(exportedCsv(call.scenes)))
    /\ UNCHANGED call
    /\ UNCHANGED appVars

\* the three optimizers applied to the same text
optimizeReturns ==
    /\ call.fn = "optimize"
    /\ ret = Absent
    /\ ret' = Present([image |-> optimizeImagePrompt(call.text),
                       video |-> optimizeVideoPrompt(call.text),
                       voice |-> optimizeVoiceScript(call.text)])
    /\ UNCHANGED call
    /\ UNCHANGED appVars

\* each optimizer applied to a text, to its own result, and to that result
optimizeRepeatedReturns ==
    /\ call.fn = "optimizeRepeated"
    /\ ret = Absent
    /\ ret' = Present(
           LET once  == [image |-> optimizeImagePrompt(call.text),
                         video |-> optimizeVideoPrompt(call.text),
                         voice |-> optimizeVoiceScript(call.text)]
               twice == [image |-> optimizeImagePrompt(once.image),
                         video |-> optimizeVideoPrompt(once.video),
                         voice |-> optimizeVoiceScript(once.voice)]
           IN  [once   |-> once,
                twice  |-> twice,
                thrice |-> [image |-> optimizeImagePrompt(twice.image),
                            video |-> optimizeVideoPrompt(twice.video),
                            voice |-> optimizeVoiceScript(twice.voice)]])
    /\ UNCHANGED call
    /\ UNCHANGED appVars

\* each scorer applied to a text and to what its optimizer makes of the text
optimizeThenAnalyzeReturns ==
    /\ call.fn = "optimizeThenAnalyze"
    /\ ret = Absent
    /\ ret' = Present(
           [before |-> [image |-> analyzeImage(call.text),
                        video |-> analyzeVideo(call.text),
                        voice |-> analyzeVoice(call.text)],
            after  |-> [image |-> analyzeImage(optimizeImagePrompt(call.text)),
                        video |-> analyzeVideo(optimizeVideoPrompt(call.text)),
                        voice |-> analyzeVoice(optimizeVoiceScript(call.text))]])
    /\ UNCHANGED call
    /\ UNCHANGED appVars

NextPure ==
    \/ analyzePromptReturns
    \/ readinessReturns
    \/ importReturns
    \/ exportImportReturns
    \/ optimizeReturns
    \/ optimizeRepeatedReturns
    \/ optimizeThenAnalyzeReturns

SpecPure == InitPure /\ [][NextPure]_vars

analyzed == call.fn = "analyzePrompt" /\ isPresent(ret)

labelled == call.fn = "readiness" /\ isPresent(ret)

imported == call.fn = "import" /\ isPresent(ret)

roundTripped == call.fn = "exportImport" /\ isPresent(ret)

optimized == call.fn = "optimize" /\ isPresent(ret)

repeated == call.fn = "optimizeRepeated" /\ isPresent(ret)

rescored == call.fn = "optimizeThenAnalyze" /\ isPresent(ret)

(***************************************************************************)
(* Properties                                                              *)
(***************************************************************************)
sceneIndices == 1..Len(scenes)

\* C1: every scene whose analysis is present carries the analysis that
\* analyzePrompt yields for the image prompt and narration script the scene
\* holds now (checked under Spec: edits, add, remove, analyze, import, undo,
\* redo and reload).
C1_AnalysisIsCurrent ==
    \A i \in sceneIndices :
        isPresent(scenes[i].analysis) =>
            valueOf(scenes[i].analysis)
                = analysisOf(scenes[i].image_prompt, scenes[i].narration_script)

\* C1 witness: redo has restored a snapshot in which a scene with text carries
\* an analysis.
C1_Witness ==
    /\ toast.title = "Redone"
    /\ \E i \in sceneIndices : isPresent(scenes[i].analysis) /\ hasContent(scenes[i])

scoreRange == 0..MaxScore

\* C2: analyzePrompt returns image, video, voice and overall scores that are
\* integers in 0..100 (checked under SpecPure).
C2_ScoresInRange ==
    analyzed =>
        /\ valueOf(ret).image.score \in scoreRange
        /\ valueOf(ret).video.score \in scoreRange
        /\ valueOf(ret).voice.score \in scoreRange
        /\ valueOf(ret).overall.score \in scoreRange

\* C2 witness: an analysis in which both ends of the clamp act: the video rules
\* sum below 0 for an empty prompt, the voice rules sum above 100.
C2_Witness ==
    /\ analyzed
    /\ call.imagePrompt = ""
    /\ valueOf(ret).video.score = 0
    /\ valueOf(ret).voice.score = MaxScore

readinessRank(label) ==
    CASE label = "Poor" -> 0
      [] label = "Needs Work" -> 1
      [] label = "Good" -> 2
      [] label = "Production Ready" -> 3

\* C3: the readiness of a scene's analysis is Production Ready iff the overall
\* score is >= 80, Good iff 60..79, Needs Work iff 40..59, Poor iff <= 39, and
\* no lower score has a higher tier (checked under SpecPure).
C3_ReadinessSteps ==
    labelled =>
        /\ valueOf(ret).scene = "Production Ready" <=> call.score >= 80
        /\ valueOf(ret).scene = "Good" <=> (60 <= call.score /\ call.score <= 79)
        /\ valueOf(ret).scene = "Needs Work" <=> (40 <= call.score /\ call.score <= 59)
        /\ valueOf(ret).scene = "Poor" <=> call.score <= 39
        /\ \A lower \in 0..call.score :
               readinessRank(readinessOf(lower)) <= readinessRank(valueOf(ret).scene)

\* C3 witness: the boundary score 80 has been labelled Production Ready.
C3_Witness ==
    labelled /\ call.score = 80 /\ valueOf(ret).scene = "Production Ready"

\* C4: overall.score is the mean of the three dimension scores of the same
\* analysis rounded to the nearest integer: it differs from the mean by less
\* than a half, i.e. three times it differs from the sum by at most 1
\* (checked under SpecPure).
C4_OverallIsRoundedMean ==
    analyzed =>
        LET a   == valueOf(ret)
            sum == a.image.score + a.video.score + a.voice.score
        IN  /\ 3 * a.overall.score - sum <= 1
            /\ sum - 3 * a.overall.score <= 1

\* C4 witness: an analysis whose mean is rounded up (the sum is 2 above a
\* multiple of 3).
C4_Witness ==
    /\ analyzed
    /\ LET a == valueOf(ret)
       IN  (a.image.score + a.video.score + a.voice.score) % 3 = 2

\* C5: for every score in 0..100 the project-level summary and a scene's
\* analysis derive the same readiness label (checked under SpecPure).
C5_SameReadinessMapping ==
    labelled => valueOf(ret).project = valueOf(ret).scene

\* C5 witness: both derivations have labelled the boundary score 60.
C5_Witness ==
    labelled /\ call.score = 60 /\ valueOf(ret).project = "Good"

\* C6: the scene collection always holds at least one scene.
C6_AtLeastOneScene == Len(scenes) >= 1

\* C7: removeScene on a collection of exactly one scene leaves the collection
\* as it is and shows the destructive toast "Cannot Remove".
C7_RemoveLastRefused ==
    [][\A k \in 1..MaxScenes :
          (Len(scenes) = 1 /\ removeSceneAt(k)) =>
              /\ scenes' = scenes
              /\ toast' = Toast("Cannot Remove", "destructive")]_vars

\* C7 witness: the refusal has been shown for a collection of one scene.
C7_Witness == Len(scenes) = 1 /\ toast = Toast("Cannot Remove", "destructive")

\* C8: the scene at position k has order k.
C8_OrdersDense == \A k \in sceneIndices : scenes[k].scene_order = k

\* C9: no two scenes of the collection have the same id.
C9_IdsUnique ==
    \A i, j \in sceneIndices : i # j => scenes[i].id # scenes[j].id

\* C10: an edit of one text field of the scene at position k sets that field,
\* clears that scene's analysis and changes nothing else of the collection.
C10_EditChangesOneScene ==
    [][\A k \in 1..MaxScenes, field \in TextFields :
          \A value \in fieldTexts(field) :
              editSceneAt(k, field, value) =>
                  /\ Len(scenes') = Len(scenes)
                  /\ scenes'[k] = [scenes[k] EXCEPT ![field] = value,
                                                    !.analysis = Absent]
                  /\ \A j \in sceneIndices \ {k} : scenes'[j] = scenes[j]]_vars

\* C11: removeScene on a collection of more than one scene removes the scene
\* at the addressed position and no other: one scene fewer, the scenes before
\* and after it kept in sequence with their ids, texts and analyses, and the
\* orders renumbered 1..n-1 by position.
C11_RemoveExactlyOne ==
    [][\A k \in 1..MaxScenes :
          (Len(scenes) > 1 /\ removeSceneAt(k)) =>
              /\ Len(scenes') = Len(scenes) - 1
              /\ \A j \in 1..(Len(scenes) - 1) :
                     scenes'[j] = [scenes[IF j < k THEN j ELSE j + 1]
                                       EXCEPT !.scene_order = j]]_vars

\* the fields of a scene that analyzeAllScenes does not write
sceneText(s) ==
    [id |-> s.id, scene_order |-> s.scene_order,
     image_prompt |-> s.image_prompt, narration_script |-> s.narration_script]

\* C12: when analyzeAllScenes completes, a scene has an analysis exactly when
\* its image prompt or its narration script is non-empty, and no scene's id,
\* order or text has changed.
C12_AnalyzedIffContent ==
    [][analyzeAllResumed =>
          /\ Len(scenes') = Len(scenes)
          /\ \A i \in sceneIndices :
                 /\ sceneText(scenes'[i]) = sceneText(scenes[i])
                 /\ isPresent(scenes'[i].analysis) <=> hasContent(scenes[i])]_vars

\* C12 witness: an analysis has completed on a collection that holds a scene
\* with text (analysed) and a scene without text (not analysed).
C12_Witness ==
    /\ toast.title = "Analysis Complete"
    /\ \E i, j \in sceneIndices :
           /\ hasContent(scenes[i]) /\ isPresent(scenes[i].analysis)
           /\ ~hasContent(scenes[j]) /\ ~isPresent(scenes[j].analysis)

\* C13: whatever happened between the start of analyzeAllScenes and its
\* completion, the completion leaves every text as it finds it and attaches
\* to a scene only the analysis of the text that scene holds at that moment.
C13_AttachesCurrentText ==
    [][analyzeAllResumed =>
          \A i \in sceneIndices :
              /\ scenes'[i].image_prompt = scenes[i].image_prompt
              /\ scenes'[i].narration_script = scenes[i].narration_script
              /\ hasContent(scenes[i]) =>
                     scenes'[i].analysis =
                         Present(analysisOf(scenes[i].image_prompt,
                                            scenes[i].narration_script))]_vars

\* C13 witness: an analysis has completed at its due time (no millisecond has
\* passed since) on a collection that holds the initial scene, analysed, and a
\* scene whose id is the clock reading one millisecond after the analysis was
\* started: that scene was added while the analysis was pending.
C13_Witness ==
    /\ toast.title = "Analysis Complete"
    /\ ticksSinceWait = 0
    /\ \E i, j \in sceneIndices :
           /\ scenes[i].id = initialScenes[1].id
           /\ isPresent(scenes[i].analysis)
           /\ scenes[j].id = ToString(now - analysisDelay + 1)

\* C14: a successful import leaves exactly one scene for each data line of the
\* file, in the sequence of the lines, each without analysis: nothing of the
\* collection before the import is left.
C14_ImportReplacesAll ==
    [][\A csv \in CsvFiles :
          (handleCSVImport(csv) /\ toast'.title = "Import Successful") =>
              /\ Len(scenes') = Len(csvLines(csv)) - 1
              /\ \A i \in 1..Len(scenes') :
                     /\ scenes'[i].analysis = Absent
                     /\ scenes'[i].image_prompt = readCsv(csv).rows[i].image_prompt
                     /\ scenes'[i].narration_script
                            = readCsv(csv).rows[i].narration_script]_vars

\* C14 witness: an import has succeeded on a collection whose last snapshot
\* holds the initial scene with text; the collection now holds the scenes of
\* the file, none analysed, and not the initial scene.
C14_Witness ==
    /\ toast.title = "Import Successful"
    /\ Len(scenes) = 2
    /\ hasContent(history[historyIndex + 1][1])
    /\ history[historyIndex + 1][1].id = initialScenes[1].id
    /\ \A i \in sceneIndices :
           scenes[i].analysis = Absent /\ scenes[i].id # initialScenes[1].id

recordHasText(r) == r.image_prompt # "" \/ r.narration_script # ""

\* C15: the import builds a scene for every record with a non-empty image
\* prompt or narration script, and for no record whose two texts are empty
\* (checked under SpecPure).
C15_EmptyRowsExcluded ==
    imported =>
        LET kept == SelectSeq(call.records, recordHasText)
            rows == valueOf(ret).rows
        IN  /\ Len(rows) = Len(kept)
            /\ \A i \in 1..Len(rows) :
                   /\ rows[i].image_prompt = kept[i].image_prompt
                   /\ rows[i].narration_script = kept[i].narration_script

\* C16: the import does not fail on a malformed order, and the order of every
\* imported scene is positive: the record's scene_order when that parses to a
\* positive integer, the record's 1-based position otherwise (checked under
\* SpecPure).
C16_OrderPositiveOrPosition ==
    imported =>
        LET rows == valueOf(ret).rows
        IN  /\ ~valueOf(ret).throws
            /\ Len(rows) = Len(call.records)
            /\ \A i \in 1..Len(rows) :
                   LET n == parseInt(call.records[i].scene_order)
                   IN  /\ rows[i].scene_order > 0
                       /\ rows[i].scene_order =
                              IF isPresent(n) /\ valueOf(n) > 0 THEN valueOf(n) ELSE i

\* C17: importing the file that export writes for a collection gives as many
\* scenes as the collection has and, position by position, the same order,
\* image prompt and narration script (checked under SpecPure, texts with
\* commas, double quotes and line breaks included).
C17_ExportImportRoundTrip ==
    roundTripped =>
        LET rows == valueOf(ret).rows
        IN  /\ ~valueOf(ret).throws
            /\ Len(rows) = Len(call.scenes)
            /\ \A i \in 1..Len(rows) :
                   /\ rows[i].scene_order = call.scenes[i].scene_order
                   /\ rows[i].image_prompt = call.scenes[i].image_prompt
                   /\ rows[i].narration_script = call.scenes[i].narration_script

analysedIndices == {i \in sceneIndices : isPresent(scenes[i].analysis)}

RECURSIVE overallScoreSum(_)
overallScoreSum(indices) ==
    IF indices = {} THEN 0
    ELSE LET i == CHOOSE x \in indices : TRUE
         IN  valueOf(scenes[i].analysis).overall.score + overallScoreSum(indices \ {i})

\* C18: the project summary is absent when no scene has an analysis; otherwise
\* its score is the mean of overall.score over the scenes that have an
\* analysis, rounded to the nearest integer (it differs from that mean by at
\* most a half); scenes without analysis count neither in the sum nor in the
\* divisor.
C18_ProjectScoreIsMeanOfAnalysed ==
    LET summary == getOverallAnalysis(scenes)
        n       == Cardinality(analysedIndices)
        sum     == overallScoreSum(analysedIndices)
    IN  IF n = 0 THEN summary = Absent
        ELSE /\ isPresent(summary)
             /\ 2 * n * valueOf(summary).score - 2 * sum <= n
             /\ 2 * sum - 2 * n * valueOf(summary).score <= n

\* C18 witness: a collection with an analysed scene and a scene without
\* analysis, for which a summary with a positive score is produced.
C18_Witness ==
    /\ analysedIndices # {}
    /\ analysedIndices # sceneIndices
    /\ valueOf(getOverallAnalysis(scenes)).score > 0

\* C19: optimizeImagePrompt, optimizeVideoPrompt and optimizeVoiceScript each
\* return the empty string for the empty string (checked under SpecPure).
C19_EmptyStaysEmpty ==
    (optimized /\ call.text = "") =>
        /\ valueOf(ret).image = ""
        /\ valueOf(ret).video = ""
        /\ valueOf(ret).voice = ""

\* C19 witness: the optimizers have returned for the empty string.
C19_Witness == optimized /\ call.text = "" /\ valueOf(ret).voice = ""

\* C20: optimizeVoiceScript returns unchanged a script of at least 50
\* characters that contains an educational-tone keyword (checked under
\* SpecPure).
C20_VoiceUnchangedWhenToned ==
    (/\ optimized
     /\ Len(call.text) >= 50
     /\ someIncluded(educationalTone, toLowerCase(call.text))) =>
        valueOf(ret).voice = call.text

\* the fixed prefix and the fixed clauses of the three optimizers
styleClause == " Use detailed, professional style with clean modern design."

imageClauses ==
    { "Educational content: ",
      ". Visualize this with clear, professional imagery.",
      styleClause }

structureClause == " Structure as engaging scenes with smooth transitions."

motionClause == " Include smooth transitions and dynamic movement."

durationClause == " Keep scenes brief for optimal video generation (4-5 seconds each)."

videoClauses == {structureClause, motionClause, durationClause}

voiceClauses ==
    { " Include clear narration that explains key concepts.",
      " This helps you understand and learn the concept better.",
      " Provide a clear, detailed explanation of the key ideas and concepts." }

\* C21 as stated: each optimizer applied to its own result returns that result
\* unchanged (checked under SpecPure).
C21_OptimizeIdempotent ==
    repeated => valueOf(ret).twice = valueOf(ret).once

\* C21 amended: no fixed prefix or clause occurs twice after one, two or three
\* applications; optimizeImagePrompt and optimizeVideoPrompt return their own
\* result unchanged; optimizeVoiceScript returns its own result unchanged
\* when the text has fewer than 50 characters or the result has at least 50,
\* and in every case from the second application on (checked under SpecPure).
C21_NoClauseTwice ==
    repeated =>
        LET r == valueOf(ret)
        IN  /\ \A o \in {r.once, r.twice, r.thrice} :
                   /\ \A c \in imageClauses : occurrences(o.image, c) <= 1
                   /\ \A c \in videoClauses : occurrences(o.video, c) <= 1
                   /\ \A c \in voiceClauses : occurrences(o.voice, c) <= 1
            /\ r.twice.image = r.once.image
            /\ r.twice.video = r.once.video
            /\ (Len(call.text) < 50 \/ Len(r.once.voice) >= 50) =>
                   r.twice.voice = r.once.voice
            /\ r.thrice = r.twice

\* C21 witness: optimizeVideoPrompt has appended a clause to a text and has
\* returned that result unchanged when applied to it.
C21_Witness ==
    /\ repeated
    /\ valueOf(ret).once.video # call.text
    /\ \E c \in videoClauses : occurrences(valueOf(ret).once.video, c) = 1
    /\ valueOf(ret).twice.video = valueOf(ret).once.video

\* C22: for a text that is not blank, optimizeVideoPrompt appends the scene
\* structuring clause exactly when the text has no structuring keyword, the
\* motion clause exactly when it has no motion keyword and the duration clause
\* exactly when it has no duration cue, and optimizeImagePrompt appends the
\* style clause exactly when the text has no style keyword (checked under
\* SpecPure).
C22_RulesIndependent ==
    (optimized /\ trim(call.text) # "") =>
        LET lower == toLowerCase(call.text)
            r     == valueOf(ret)
        IN  /\ occurrences(r.video, structureClause) = 1
                   <=> ~someIncluded(<<"scene", "sequence">>, lower)
            /\ occurrences(r.video, motionClause) = 1
                   <=> ~someIncluded(motionWords, lower)
            /\ occurrences(r.video, durationClause) = 1
                   <=> ~someIncluded(<<"brief", "quick", "short">>, lower)
            /\ occurrences(r.image, styleClause) = 1
                   <=> ~someIncluded(styleKeywords, lower)

\* the issues of the block after that the block before does not report
newIssues(before, after) ==
    {after.issues[i] : i \in 1..Len(after.issues)}
        \ {before.issues[i] : i \in 1..Len(before.issues)}

\* C23: for a text that is not empty, each scorer reports on the optimized
\* text no issue that it did not report on the original text: the image scorer
\* on the result of optimizeImagePrompt, the video scorer on the result of
\* optimizeVideoPrompt and the voice scorer on the result of
\* optimizeVoiceScript (checked under SpecPure).
C23_NoNewIssue ==
    (rescored /\ call.text # "") =>
        LET r == valueOf(ret)
        IN  /\ newIssues(r.before.image, r.after.image) = {}
            /\ newIssues(r.before.video, r.after.video) = {}
            /\ newIssues(r.before.voice, r.after.voice) = {}

\* the issues of a block, as a set
issueSet(block) == {block.issues[i] : i \in 1..Len(block.issues)}

\* C24: analyzePrompt of two empty texts returns a complete analysis scored
\* by the ordinary rules: image 15, video 0, voice 5, overall 7, readiness
\* Poor, and each dimension's issues hold its length issue (checked under
\* SpecPure).
C24_EmptyInputsScored ==
    (analyzed /\ call.imagePrompt = "" /\ call.script = "") =>
        LET a == valueOf(ret)
        IN  /\ a.image.score = 15
            /\ a.video.score = 0
            /\ a.voice.score = 5
            /\ a.overall = [score |-> 7, readiness |-> "Poor"]
            /\ "Image prompt too short" \in issueSet(a.image)
            /\ "Video description too brief" \in issueSet(a.video)
            /\ "Narration too short" \in issueSet(a.voice)

\* C24 witness: analyzePrompt has returned for two empty texts, and the voice
\* block also reports the readability rule, which ran on the empty script.
C24_Witness ==
    /\ analyzed
    /\ call.imagePrompt = ""
    /\ call.script = ""
    /\ "Complex language detected" \in issueSet(valueOf(ret).voice)
    /\ Len(valueOf(ret).video.issues) = 3

\* <<x>> when the condition holds, else the empty list
listIf(condition, x) == IF condition THEN <<x>> ELSE <<>>

\* C25: for every narration text analyzeVoice returns the score
\* clamp(0..100, round(50 + length term + readability term + sentiment term
\* + 0.15 * topic relevance - 10 if more than 5 proper nouns)), with length
\* term -25 below 50 characters, -10 above 500, else +15; readability term
\* -20 below 60, +15 above 80, else 0; sentiment term -15 below -2, +10 above
\* 2, else 0; and the issues and the suggestions are those of the penalty
\* rules that fired, one each, in rule order (checked under SpecPure).
C25_VoiceScoreFormula ==
    analyzed =>
        LET text == call.script
            fk   == calculateFleschKincaid(text)
            sent == calculateSentiment(text)
            short   == Len(text) < 50
            long    == Len(text) > 500
            complex == fk.num < 60 * fk.den
            easy    == fk.num > 80 * fk.den
            gloomy  == sent < -2
            many    == Len(detectProperNouns(text)) > 5
            lengthTerm      == IF short THEN -25 ELSE IF long THEN -10 ELSE 15
            readabilityTerm == IF complex THEN -20 ELSE IF easy THEN 15 ELSE 0
            sentimentTerm   == IF gloomy THEN -15 ELSE IF sent > 2 THEN 10 ELSE 0
            nounTerm        == IF many THEN -10 ELSE 0
            \* 20 times the unrounded score
            twentyfold == 20 * (50 + lengthTerm + readabilityTerm + sentimentTerm
                                + nounTerm)
                          + 3 * scoreTopicRelevance(text)
            rounded == (2 * twentyfold + 20) \div 40
            voice == valueOf(ret).voice
        IN  /\ voice.score = IF rounded < 0 THEN 0
                             ELSE IF rounded > 100 THEN 100 ELSE rounded
            /\ voice.issues =
                   listIf(short, "Narration too short")
                   \o listIf(long, "Narration might be too long for video segment")
                   \o listIf(complex, "Complex language detected")
                   \o listIf(gloomy, "Negative tone detected")
                   \o listIf(many, "Many technical terms may need pronunciation guide")
            /\ voice.suggestions =
                   listIf(short, "Expand explanation for better understanding")
                   \o listIf(long, "Consider breaking into shorter segments")
                   \o listIf(complex, "Simplify vocabulary and sentence structure")
                   \o listIf(gloomy, "Use more positive, encouraging language")
                   \o listIf(many, "Add phonetic spelling for complex terms")

\* C25 witness: analyzeVoice has scored a script whose topic term has a
\* fractional part and for which two penalty rules fired.
C25_Witness ==
    /\ analyzed
    /\ scoreTopicRelevance(call.script) % 20 = 10
    /\ Len(valueOf(ret).voice.issues) = 2
    /\ valueOf(ret).voice.score > 0

\* C26: for every prompt text analyzeVideo returns the score
\* clamp(0..100, 50 + (20 if a motion verb is present, else -25) + (15 if a
\* duration keyword is present, else -15) + (10 if an engagement keyword is
\* present) - (15 if the text has fewer than 30 characters)); a missing
\* engagement keyword adds no issue, and a missing motion verb, a missing
\* duration keyword and a short text add one issue and one suggestion each
\* (checked under SpecPure).
C26_VideoScoreFormula ==
    analyzed =>
        LET text  == call.imagePrompt
            lower == toLowerCase(text)
            still   == \A i \in 1..Len(MOTION_VERBS) : ~includes(lower, MOTION_VERBS[i])
            untimed == \A i \in 1..Len(durationKeywords) :
                           ~includes(lower, durationKeywords[i])
            engaging == \E i \in 1..Len(TOPIC_KEYWORDS.engagement) :
                            includes(lower, TOPIC_KEYWORDS.engagement[i])
            brief == Len(text) < 30
            sum == 50 + (IF still THEN -25 ELSE 20) + (IF untimed THEN -15 ELSE 15)
                      + (IF engaging THEN 10 ELSE 0) - (IF brief THEN 15 ELSE 0)
            video == valueOf(ret).video
        IN  /\ video.score = IF sum < 0 THEN 0 ELSE IF sum > 100 THEN 100 ELSE sum
            /\ video.issues =
                   listIf(still, "No motion described")
                   \o listIf(untimed, "Duration unclear")
                   \o listIf(brief, "Video description too brief")
            /\ video.suggestions =
                   listIf(still, "Add motion verbs like \"flows\", \"transitions\", \"zooms\"")
                   \o listIf(untimed, "Specify timing like \"smooth 4-second transition\"")
                   \o listIf(brief, "Describe the visual sequence in more detail")

\* C26 witness: analyzeVideo has scored a prompt that has a motion verb and no
\* engagement keyword, and reports the missing duration keyword only.
C26_Witness ==
    /\ analyzed
    /\ ~someIncluded(TOPIC_KEYWORDS.engagement, toLowerCase(call.imagePrompt))
    /\ valueOf(ret).video.issues = <<"Duration unclear">>
    /\ valueOf(ret).video.score = 55

\* every topic keyword of TOPIC_KEYWORDS, as a set
topicKeywordSet ==
    UNION {{TOPIC_KEYWORDS[c][i] : i \in 1..Len(TOPIC_KEYWORDS[c])} : c \in DOMAIN TOPIC_KEYWORDS}

\* C27: for every prompt text analyzeImage returns the score
\* clamp(0..100, round(50 + (-20 below 50 characters, +10 above 200, else 0)
\* + (15 if a visual-style keyword is present, else -15) + 0.2 * topic
\* relevance - (10 if more than 3 proper nouns))), where the topic relevance
\* is 10 for each distinct topic keyword the text contains, at most 100, a
\* keyword that occurs several times counting once (checked under SpecPure).
C27_ImageScoreFormula ==
    analyzed =>
        LET text  == call.imagePrompt
            lower == toLowerCase(text)
            contained == {k \in topicKeywordSet : includes(lower, k)}
            relevance == IF 10 * Cardinality(contained) > 100
                         THEN 100 ELSE 10 * Cardinality(contained)
            lengthTerm == IF Len(text) < 50 THEN -20 ELSE IF Len(text) > 200 THEN 10 ELSE 0
            styleTerm  == IF \E i \in 1..Len(visualKeywords) : includes(lower, visualKeywords[i])
                          THEN 15 ELSE -15
            nounTerm   == IF Len(detectProperNouns(text)) > 3 THEN -10 ELSE 0
            \* 5 times the unrounded score
            fivefold == 5 * (50 + lengthTerm + styleTerm + nounTerm) + relevance
            rounded  == (2 * fivefold + 5) \div 10
        IN  valueOf(ret).image.score
                = IF rounded < 0 THEN 0 ELSE IF rounded > 100 THEN 100 ELSE rounded

\* C27 witness: analyzeImage has scored a prompt in which a topic keyword
\* occurs three times and whose topic relevance is below the cap.
C27_Witness ==
    /\ analyzed
    /\ occurrences(toLowerCase(call.imagePrompt), "flow") = 3
    /\ scoreTopicRelevance(call.imagePrompt) < 100
    /\ valueOf(ret).image.score > 0

requiredHeaders == {"scene_order", "image_prompt", "narration_script"}

\* the file has no line with text, or its first such line lacks a required
\* header
lacksRequiredHeader(csv) ==
    \/ csvLines(csv) = <<>>
    \/ LET headers == csvHeaders(csvLines(csv))
       IN  ~(requiredHeaders \subseteq {headers[i] : i \in 1..Len(headers)})

\* the files of the model that are rejected for this reason
filesLackingHeader == {csv \in CsvFiles : lacksRequiredHeader(csv)}

\* C28: an import of a file that is empty or lacks one of the headers
\* scene_order, image_prompt, narration_script shows the destructive toast
\* "Import Failed" and leaves the collection, with every scene's id, order,
\* texts and analysis, as it was (checked under Spec).
C28_FailedImportKeepsScenes ==
    [][\A csv \in filesLackingHeader :
          handleCSVImport(csv) =>
              /\ scenes' = scenes
              /\ toast' = Toast("Import Failed", "destructive")]_vars

\* C28 witness: an import has failed on a collection of two scenes of which
\* one carries text and an analysis.
C28_Witness ==
    /\ toast = Toast("Import Failed", "destructive")
    /\ Len(scenes) = 2
    /\ \E i \in sceneIndices : isPresent(scenes[i].analysis) /\ hasContent(scenes[i])

\* C29: every undo step leaves redo enabled, and the snapshot that redo then
\* restores is the collection that was current before the undo, also when the
\* last change before the undo was an import or an analysis of all scenes
\* (checked under Spec).
C29_UndoRedoRoundTrip ==
    [][undo =>
          /\ historyIndex' < Len(history') - 1
          /\ jsonCopy(history'[historyIndex' + 2]) = scenes]_vars

\* the history index addresses a snapshot and the history is within its size
historyWellFormed ==
    /\ 0 <= historyIndex
    /\ historyIndex < Len(history)
    /\ Len(history) <= maxHistorySize

\* a step that changes the history keeps the snapshots up to the index
\* (without the oldest when that would make 51), drops those beyond it, and
\* appends the new collection, which the index then addresses
laterSnapshotsDiscarded ==
    history' # history =>
        LET kept == SubSeq(history, 1, historyIndex + 1)
            before == IF Len(kept) = maxHistorySize THEN Tail(kept) ELSE kept
        IN  /\ history' = Append(before, jsonCopy(scenes'))
            /\ historyIndex' = Len(history') - 1

\* C30: after any sequence of text edits, added scenes, removed scenes, undo
\* and redo, 0 <= historyIndex < Len(history) <= 50, and a change made after
\* undo discards the snapshots beyond the index (checked under SpecHistory).
C30_HistoryWellFormed ==
    /\ []historyWellFormed
    /\ [][laterSnapshotsDiscarded]_vars

\* C30 witness: the history is full and the index addresses its last
\* snapshot, the last toast being that of undo: the snapshots after the undo
\* were replaced by those of later edits.
C30_Witness ==
    /\ Len(history) = maxHistorySize
    /\ historyIndex = maxHistorySize - 1
    /\ toast.title = "Undone"

====
